---- MODULE Spec2Model ----
(***************************************************************************)
(* A model of carto-vl's Animate and Ramp expressions.                     *)
(*                                                                         *)
(* JavaScript numbers are modelled as exact rationals extended with NaN,   *)
(* +Infinity, -Infinity and undefined: records [k, n, d] with k the kind   *)
(* and n/d the reduced fraction of a finite value.  Negative zero and      *)
(* binary rounding of doubles are not modelled; the palette numbers the    *)
(* model draws are dyadic, so that their Float32Array storage is exact.    *)
(***************************************************************************)
EXTENDS Integers, Sequences, FiniteSets, TLC

\* ------------------------------------------------------------------------
\* Bounds of the model
\* ------------------------------------------------------------------------
MaxTime == 4
MaxDuration == 2
MaxCats == 2
MaxPalette == 2
MaxComputes == 2
MaxTexUnit == 1
MaxUid == 11
MaxNested == 2
MaxFeatures == 2

\* ------------------------------------------------------------------------
\* JavaScript numbers
\* ------------------------------------------------------------------------
Abs(x) == IF x < 0 THEN -x ELSE x

RECURSIVE GCD(_, _)
GCD(a, b) == IF b = 0 THEN a ELSE GCD(b, a % b)

NaN == [k |-> "nan", n |-> 0, d |-> 1]
PosInf == [k |-> "inf", n |-> 1, d |-> 1]
NegInf == [k |-> "inf", n |-> -1, d |-> 1]
Undefined == [k |-> "undef", n |-> 0, d |-> 1]

\* the finite number n/d (d # 0), reduced, with a positive denominator
Fin(n, d) ==
    LET s == IF d < 0 THEN -1 ELSE 1
        g == GCD(Abs(n), Abs(d))
    IN  [k |-> "fin", n |-> (s * n) \div g, d |-> (s * d) \div g]

Int2Js(i) == [k |-> "fin", n |-> i, d |-> 1]
Zero == Int2Js(0)
One == Int2Js(1)

IsFin(x) == x.k = "fin"
IsInf(x) == x.k = "inf"
\* undefined converts to NaN in arithmetic (ToNumber(undefined))
IsNaNum(x) == x.k \in {"nan", "undef"}
Sign(x) == IF x.n > 0 THEN 1 ELSE IF x.n < 0 THEN -1 ELSE 0
Inf(s) == IF s > 0 THEN PosInf ELSE NegInf

JsNeg(x) == IF IsNaNum(x) THEN NaN ELSE [x EXCEPT !.n = -x.n]

JsAdd(x, y) ==
    IF IsNaNum(x) \/ IsNaNum(y) THEN NaN
    ELSE IF IsInf(x) /\ IsInf(y) THEN (IF x = y THEN x ELSE NaN)
    ELSE IF IsInf(x) THEN x
    ELSE IF IsInf(y) THEN y
    ELSE Fin(x.n * y.d + y.n * x.d, x.d * y.d)

JsSub(x, y) == JsAdd(x, JsNeg(y))

JsMul(x, y) ==
    IF IsNaNum(x) \/ IsNaNum(y) THEN NaN
    ELSE IF IsInf(x) \/ IsInf(y)
      THEN (IF Sign(x) * Sign(y) = 0 THEN NaN ELSE Inf(Sign(x) * Sign(y)))
    ELSE Fin(x.n * y.n, x.d * y.d)

\* x / y: a zero divisor gives NaN for 0/0 and an infinity otherwise
JsDiv(x, y) ==
    IF IsNaNum(x) \/ IsNaNum(y) THEN NaN
    ELSE IF IsInf(x) /\ IsInf(y) THEN NaN
    ELSE IF IsInf(x) THEN (IF Sign(y) < 0 THEN JsNeg(x) ELSE x)
    ELSE IF IsInf(y) THEN Zero
    ELSE IF y.n = 0 THEN (IF x.n = 0 THEN NaN ELSE Inf(Sign(x)))
    ELSE Fin(x.n * y.d, x.d * y.n)

\* x < y, x <= y: false when either side is NaN
JsLt(x, y) ==
    /\ ~IsNaNum(x)
    /\ ~IsNaNum(y)
    /\ IF IsInf(x) /\ IsInf(y) THEN x.n < y.n
       ELSE IF IsInf(x) THEN x.n < 0
       ELSE IF IsInf(y) THEN y.n > 0
       ELSE x.n * y.d < y.n * x.d

JsLe(x, y) == ~IsNaNum(x) /\ ~IsNaNum(y) /\ (x = y \/ JsLt(x, y))
JsGt(x, y) == JsLt(y, x)

\* Math.min / Math.max: NaN when either argument is NaN
MathMin(x, y) ==
    IF IsNaNum(x) \/ IsNaNum(y) THEN NaN ELSE IF JsLt(y, x) THEN y ELSE x

MathMax(x, y) ==
    IF IsNaNum(x) \/ IsNaNum(y) THEN NaN ELSE IF JsLt(x, y) THEN y ELSE x

\* Math.floor, Math.ceil, Math.round (round half up)
MathFloor(x) == IF IsFin(x) THEN Int2Js(x.n \div x.d) ELSE IF IsInf(x) THEN x ELSE NaN
MathCeil(x) == IF IsFin(x) THEN Int2Js(-((-x.n) \div x.d)) ELSE IF IsInf(x) THEN x ELSE NaN
MathRound(x) ==
    IF IsFin(x) THEN Int2Js((2 * x.n + x.d) \div (2 * x.d)) ELSE IF IsInf(x) THEN x ELSE NaN

\* ToBoolean of a number or undefined
Truthy(x) == ~IsNaNum(x) /\ ~(IsFin(x) /\ x.n = 0)

\* ------------------------------------------------------------------------
\* State
\* ------------------------------------------------------------------------
VARIABLES
    now,        \* Date.now(), in milliseconds
    anim,       \* the Animate node: exists, aTime, bTime, mix
    animOut,    \* the last Animate operation and what it returned or pushed
    ramp,       \* the Ramp node's fields
    tex,        \* this._cachedTexturePixels
    numCats,    \* the category count the input reports (categorical inputs)
    palPhase,   \* the moment of an animated palette: its values depend on it
    rampOut,    \* the last Ramp operation and what it returned or pushed
    hist,       \* history: table builds, GL textures created, what the table was built for
    mvt         \* the MVT source: the last layer decoded and what the decoding returned

animVars == <<now, anim, animOut>>
rampVars == <<ramp, tex, numCats, palPhase, rampOut, hist>>
vars == <<now, anim, animOut, ramp, tex, numCats, palPhase, rampOut, hist, mvt>>

\* ------------------------------------------------------------------------
\* Animate
\* ------------------------------------------------------------------------
NoAnim ==
    [exists |-> FALSE, uid |-> 0, aTime |-> 0, bTime |-> 0, mix |-> Undefined,
     uniformLocation |-> <<>>]

\* generated GLSL: the guard _prefaceCode wraps the declarations in, the
\* uniform names declared, and the inline expression
NoText == [guard |-> 0, uniforms |-> <<>>, inline |-> <<>>]

NoOut ==
    [op |-> "none", at |-> 0, dur |-> 0, num |-> Undefined, flag |-> FALSE,
     lastEval |-> Undefined, text |-> NoText]

Durations == -1 .. MaxDuration

\* the _uid values nodes are given: a one-digit one and a
\* longer one that starts with the same digit
Uids == {1, MaxUid}

AnimInit ==
    /\ now = 0
    /\ anim = NoAnim
    /\ animOut = NoOut

\* Date.now() moves on
Tick ==
    /\ now < MaxTime
    /\ now' = now + 1
    /\ UNCHANGED <<anim, animOut>>
    /\ UNCHANGED <<rampVars, mvt>>

AnimateConstructorRejectsZero(duration) ==
    /\ IF duration <= 0
         THEN /\ anim' = NoAnim
              /\ animOut' = [NoOut EXCEPT !.op = "throw", !.at = now, !.dur = duration]
         ELSE /\ anim' = [NoAnim EXCEPT !.exists = TRUE, !.aTime = now,
                                        !.bTime = now + duration]
              /\ animOut' = [NoOut EXCEPT !.op = "new", !.at = now, !.dur = duration]
    /\ UNCHANGED now
    /\ UNCHANGED <<rampVars, mvt>>

\* new Animate(duration): a negative duration throws before any field is set
AnimateConstructor(duration) ==
    /\ IF duration < 0
         THEN /\ anim' = NoAnim
              /\ animOut' = [NoOut EXCEPT !.op = "throw", !.at = now, !.dur = duration]
         ELSE /\ anim' = [NoAnim EXCEPT !.exists = TRUE, !.aTime = now,
                                        !.bTime = now + duration]
              /\ animOut' = [NoOut EXCEPT !.op = "new", !.at = now, !.dur = duration]
    /\ UNCHANGED now
    /\ UNCHANGED <<rampVars, mvt>>

\* _setUID(idGenerator): the node gets its _uid
AnimSetUID(uid) ==
    /\ anim.exists
    /\ anim.uid = 0
    /\ anim' = [anim EXCEPT !.uid = uid]
    /\ animOut' = [NoOut EXCEPT !.op = "setUID", !.at = now,
                                !.lastEval = animOut.lastEval]
    /\ UNCHANGED now
    /\ UNCHANGED <<rampVars, mvt>>

\* (time - this.aTime) / (this.bTime - this.aTime)
AnimMix(time) == JsDiv(Int2Js(time - anim.aTime), Int2Js(anim.bTime - anim.aTime))

AnimEvalNoClamp(mix) == mix

\* the value eval() returns for this.mix
AnimEvalResult(mix) == MathMin(mix, One)

AnimEvalRestarts ==
    /\ anim.exists
    /\ anim' = [anim EXCEPT !.mix = AnimMix(now), !.aTime = now,
                            !.bTime = now + (anim.bTime - anim.aTime)]
    /\ animOut' = [NoOut EXCEPT !.op = "eval", !.at = now,
                                !.num = AnimEvalResult(AnimMix(now)),
                                !.lastEval = AnimEvalResult(AnimMix(now))]
    /\ UNCHANGED now
    /\ UNCHANGED <<rampVars, mvt>>

AnimEval ==
    /\ anim.exists
    /\ anim' = [anim EXCEPT !.mix = AnimMix(now)]
    /\ animOut' = [NoOut EXCEPT !.op = "eval", !.at = now,
                                !.num = AnimEvalResult(AnimMix(now)),
                                !.lastEval = AnimEvalResult(AnimMix(now))]
    /\ UNCHANGED now
    /\ UNCHANGED <<rampVars, mvt>>

\* !this.mix || this.mix <= 1.
AnimIsAnimatedResult(mix) == ~Truthy(mix) \/ JsLe(mix, One)

AnimIsAnimated ==
    /\ anim.exists
    /\ animOut' = [NoOut EXCEPT !.op = "isAnimated", !.at = now,
                                !.flag = AnimIsAnimatedResult(anim.mix),
                                !.lastEval = animOut.lastEval]
    /\ UNCHANGED <<now, anim>>
    /\ UNCHANGED <<rampVars, mvt>>

RECURSIVE Digits(_)
\* the decimal digits of a number, as a template literal writes them
Digits(n) ==
    IF n < 10 THEN <<n>> ELSE Digits(n \div 10) \o <<n % 10>>

AnimUniformNameNoUid(uid) == <<"a", "n", "i", "m">>

\* `anim${this._uid}`
AnimUniformName(uid) == <<"a", "n", "i", "m">> \o Digits(uid)

\* this._prefaceCode(code): the declarations, guarded by the node's _uid
PrefaceCode(uid, names) == [guard |-> uid, uniforms |-> names]

\* what Animate._applyToShaderSource returns
AnimShaderSource(uid) ==
    [guard |-> PrefaceCode(uid, <<AnimUniformName(uid)>>).guard,
     uniforms |-> PrefaceCode(uid, <<AnimUniformName(uid)>>).uniforms,
     inline |-> AnimUniformName(uid)]

AnimApplyToShaderSource ==
    /\ anim.exists
    /\ anim.uid # 0
    /\ animOut' = [NoOut EXCEPT !.op = "applyToShaderSource", !.at = now,
                                !.text = AnimShaderSource(anim.uid),
                                !.lastEval = animOut.lastEval]
    /\ UNCHANGED <<now, anim>>
    /\ UNCHANGED <<rampVars, mvt>>

\* Animate._postShaderCompile(program, gl): the binding gets the location of
\* the uniform of that name
AnimPostShaderCompile ==
    /\ anim.exists
    /\ anim.uid # 0
    /\ anim' = [anim EXCEPT !.uniformLocation = AnimUniformName(anim.uid)]
    /\ animOut' = [NoOut EXCEPT !.op = "postShaderCompile", !.at = now,
                                !.lastEval = animOut.lastEval]
    /\ UNCHANGED now
    /\ UNCHANGED <<rampVars, mvt>>

AnimUniformNoClamp(mix) == mix

\* the scalar gl.uniform1f receives
AnimUniform(mix) == IF JsGt(mix, One) THEN One ELSE mix

\* Animate._preDraw(program, drawMetadata, gl), the program being compiled
AnimPreDraw ==
    /\ anim.exists
    /\ anim.uniformLocation # <<>>
    /\ anim' = [anim EXCEPT !.mix = AnimMix(now)]
    /\ animOut' = [NoOut EXCEPT !.op = "preDraw", !.at = now,
                                !.num = AnimUniform(AnimMix(now)),
                                !.lastEval = animOut.lastEval]
    /\ UNCHANGED now
    /\ UNCHANGED <<rampVars, mvt>>

\* ------------------------------------------------------------------------
\* Ramp: constants, values, nodes
\* ------------------------------------------------------------------------
COLOR_ARRAY_LENGTH == 256
MAX_BYTE_VALUE == 255
DEFAULT_OTHERS_NAME == "Others"

Null == [k |-> "null", n |-> 0, d |-> 1]

\* A value a ramp yields.  A colour is the interpolation between the palette
\* colours lo and hi at fraction f (a palette colour itself has lo = hi and
\* f = 0); "nancolor" is the colour whose channels are all NaN; a number is f;
\* a url is the image lo.
ColorOf(id) == [t |-> "color", lo |-> id, hi |-> id, f |-> Zero]
NumVal(x) == [t |-> "number", lo |-> 0, hi |-> 0, f |-> x]
UrlOf(i) == [t |-> "url", lo |-> i, hi |-> i, f |-> Zero]
NaNColor == [t |-> "nancolor", lo |-> 0, hi |-> 0, f |-> NaN]
NullVal == [t |-> "null", lo |-> 0, hi |-> 0, f |-> Zero]
NoVal == [t |-> "undefined", lo |-> 0, hi |-> 0, f |-> Zero]

\* new NamedColor('gray').eval()
DefaultOthersColor == ColorOf(0)

\* interpolateRGBAinCieLAB(a, b, m) followed by the quantisation to bytes:
\* the colour a at m = 0 and between equal colours, a blend otherwise
InterpolateRGBAinCieLAB(a, b, m) ==
    IF m = Zero \/ a = b THEN a ELSE [t |-> "color", lo |-> a.lo, hi |-> b.lo, f |-> m]

\* The 256-entry table is kept as the values it is built from: `from` holds
\* the colours (or numbers) the build loop interpolates between, and entry i
\* is what the loop stores at index i.
NoTexture == [kind |-> "none", from |-> <<>>]
TextureLength(t) == IF t.kind = "none" THEN 0 ELSE COLOR_ARRAY_LENGTH

\* Expression nodes: the input of a ramp is a chain, outermost node first.
\* The nodes the caller built are numbered 1 (the property) and 2 (the
\* expression around it); a node made later gets a number above these.
PropertyNode == [cls |-> "Property", type |-> "unknown", bound |-> 0, nid |-> 1]
OuterNode(cls) ==
    [cls |-> cls, type |-> IF cls = "Linear" THEN "number" ELSE "category",
     bound |-> 0, nid |-> 2]

InputKinds == {"Property", "Linear", "Buckets", "Top", "Classifier"}
InputChain(kind) ==
    IF kind = "Property" THEN <<PropertyNode>> ELSE <<OuterNode(kind), PropertyNode>>

\* Metadata: two datasets, one whose property is numeric (with its range and
\* a sample of its values) and one whose property is categorical
PropName == "prop"
MetadataIds == {1, 2}
MetaPropType(id) == IF id % 2 = 1 THEN "number" ELSE "category"
MetadataStats == [min |-> 0, max |-> 2, sample |-> <<2, 0, 1>>]
CategoryNames == <<"a", "b", "c", "d", "e", "f", "g", "h">>

\* Palettes: K entries; an animated palette's values move with palPhase
PaletteTypes == {"color-array", "number-array", "image"}
\* and a palette that is not constant reads the feature it is evaluated for
Palettes ==
    {p \in [type : PaletteTypes, size : 1 .. MaxPalette, animated : BOOLEAN,
            constant : BOOLEAN] : p.type = "image" => p.constant}

\* palette.eval() with no feature throws when the palette reads the feature
PaletteEvalThrows(palette) == ~palette.constant

CalcPaletteValuesSwallows(palette) == FALSE

\* _calcPaletteValues(palette) throws 'Palettes must be formed by constant
\* expressions': it evaluates a number-array or a color-array, nothing else
CalcPaletteValuesThrows(palette) ==
    palette.type \in {"number-array", "color-array"} /\ PaletteEvalThrows(palette)

\* palette.isAnimated()
PaletteIsAnimated(palette) == palette.animated

\* palette.eval() of a color-array: its colours
PaletteColors(palette, phase) ==
    [i \in 1 .. palette.size |-> ColorOf(i + phase * (MaxPalette + 1))]

\* palette.eval() of a number-array: its numbers, 1/4, 5/4, 9/4, ... (all
\* of them exact as 32-bit floats)
PaletteFloats(palette, phase) ==
    [i \in 1 .. palette.size |-> Fin(4 * (i - 1 + phase) + 1, 4)]

Head1(chain) == chain[1]
InputType(r) == Head1(r.input).type
InputIsA(r, cls) == Head1(r.input).cls = cls

\* this.input.numCategories: undefined for a numeric input
NumCategories(r, nc) == IF InputType(r) = "category" THEN Int2Js(nc) ELSE Undefined

\* the state after new Ramp(input, palette)
NewRamp(kind, palette) ==
    [exists |-> ~CalcPaletteValuesThrows(palette),
     uid |-> 0,
     inner |-> 0,
     input |-> InputChain(kind),
     palette |-> palette,
     minKey |-> Zero,
     maxKey |-> One,
     type |-> IF palette.type = "number-array" THEN "number" ELSE "color",
     baseBound |-> 0,
     metadata |-> 0,
     palEval |-> 0,
     texCategories |-> Undefined,
     GLtexCategories |-> Undefined,
     texture |-> NoTexture]

\* ------------------------------------------------------------------------
\* Ramp: the colours of the table
\* ------------------------------------------------------------------------
Min2(a, b) == IF a < b THEN a ELSE b

\* _avoidShowingInterpolation(numCategories, colors, defaultOthersColor)
AvoidShowingInterpolation(numCategories, colors, defaultOthersColor) ==
    LET kept == IF numCategories <= 0 THEN <<>>
                ELSE SubSeq(colors, 1, Min2(numCategories, Len(colors)))
    IN  IF numCategories >= 0 /\ numCategories < Len(colors)
          THEN Append(kept, defaultOthersColor)
          ELSE kept

\* _addothersColorToColors(colors, othersColor)
AddOthersColorToColors(colors, othersColor) == Append(colors, othersColor)

\* _getColorsFromColorArrayTypeCategorical(input, numCategories, colors, defaultOthersColor)
GetColorsFromColorArrayTypeCategorical(cls, numCategories, colors, defaultOthersColor) ==
    IF cls = "Classifier" /\ numCategories < Len(colors) THEN colors
    ELSE IF cls = "Property" THEN colors
    ELSE IF numCategories < Len(colors)
      THEN AvoidShowingInterpolation(numCategories, colors, colors[numCategories + 1])
    ELSE IF numCategories > Len(colors)
      THEN AddOthersColorToColors(colors, defaultOthersColor)
    ELSE AvoidShowingInterpolation(numCategories,
             AddOthersColorToColors(colors, defaultOthersColor), defaultOthersColor)

\* _getColorsFromColorArrayTypeNumeric(numCategories, colors), numCategories
\* being undefined for the numeric input it is called for: both comparisons fail
GetColorsFromColorArrayTypeNumeric(numCategories, colors) ==
    IF IsFin(numCategories) /\ numCategories.n < Len(colors)
      THEN AvoidShowingInterpolation(numCategories.n, colors, colors[numCategories.n + 1])
      ELSE IF IsFin(numCategories) /\ numCategories.n = Len(colors)
        THEN AvoidShowingInterpolation(numCategories.n, colors, colors[Len(colors)])
        ELSE colors

\* _getColorsFromColorArrayType(input, palette, numCategories, defaultOthersColor):
\* the caller passes this.maxKey as numCategories
GetColorsFromColorArrayType(r, nc, colors) ==
    IF InputType(r) = "category"
      THEN GetColorsFromColorArrayTypeCategorical(Head1(r.input).cls, r.maxKey.n, colors,
                                                   DefaultOthersColor)
      ELSE GetColorsFromColorArrayTypeNumeric(NumCategories(r, nc), colors)

\* the table index i reads the palette at i / 255 * (K - 1)
BracketLow(i, k) == (i * (k - 1)) \div (COLOR_ARRAY_LENGTH - 1)
BracketHigh(i, k) == -((-(i * (k - 1))) \div (COLOR_ARRAY_LENGTH - 1))
BracketFract(i, k) ==
    JsSub(Fin(i * (k - 1), COLOR_ARRAY_LENGTH - 1), Int2Js(BracketLow(i, k)))

\* the loop body of _computeColorRampTexture: texturePixels[4 * i + 0 .. 3]
ColorRampEntry(colors, i) ==
    InterpolateRGBAinCieLAB(colors[BracketLow(i, Len(colors)) + 1],
                            colors[BracketHigh(i, Len(colors)) + 1],
                            BracketFract(i, Len(colors)))

\* the loop body of _computeNumericRampTexture: texturePixels[i]
NumericRampEntry(floats, i) ==
    LET m == BracketFract(i, Len(floats))
    IN  NumVal(JsAdd(JsMul(JsSub(One, m), floats[BracketLow(i, Len(floats)) + 1]),
                     JsMul(m, floats[BracketHigh(i, Len(floats)) + 1])))

\* texturePixels[i], for an index i on the table
TextureEntry(t, i) ==
    IF t.kind = "color" THEN ColorRampEntry(t.from, i) ELSE NumericRampEntry(t.from, i)

\* _computeColorRampTexture(), the palette's colours being those of its last
\* evaluation (the caller re-evaluates an animated palette first)
ComputeColorRampTexture(r, nc) ==
    [kind |-> "color",
     from |-> GetColorsFromColorArrayType(r, nc, PaletteColors(r.palette, r.palEval))]

\* _computeNumericRampTexture(): this.palette.floats is the palette's last evaluation
ComputeNumericRampTexture(r) ==
    [kind |-> "number", from |-> PaletteFloats(r.palette, r.palEval)]

TextureAlwaysNeeded(r, t) == TRUE

\* the test of _computeTextureIfNeeded: no cached table, or an animated palette
TextureNeeded(r, t) == ~(t.kind # "none" /\ ~PaletteIsAnimated(r.palette))

\* _calcPaletteValues(palette): palette.floats / palette.colors = palette.eval()
CalcPaletteValues(r, phase) == [r EXCEPT !.palEval = phase]

\* _computeTextureIfNeeded(): the node and the table after the call
ComputeTextureIfNeeded(r, t, nc, phase) ==
    IF ~TextureNeeded(r, t)
      THEN [ramp |-> r, tex |-> t, built |-> FALSE]
      ELSE LET r1 == [r EXCEPT !.texCategories = NumCategories(r, nc),
                               !.maxKey = IF InputType(r) = "category"
                                            THEN JsSub(NumCategories(r, nc), One)
                                            ELSE @]
               r2 == IF r1.type = "color" /\ PaletteIsAnimated(r1.palette)
                       THEN CalcPaletteValues(r1, phase)
                       ELSE r1
           IN  [ramp |-> r2,
                tex |-> IF r2.type = "color"
                          THEN ComputeColorRampTexture(r2, nc)
                          ELSE ComputeNumericRampTexture(r2),
                built |-> TRUE]

\* ------------------------------------------------------------------------
\* Ramp: reading the table
\* ------------------------------------------------------------------------
\* clamp(x, min, max) == Math.min(Math.max(x, min), max)
Clamp(x, lo, hi) == MathMin(MathMax(x, lo), hi)

\* texturePixels[index]: undefined off the table or for a NaN / infinite index
PixelAt(t, index) ==
    IF IsFin(index) /\ index.d = 1 /\ index.n >= 0 /\ index.n < TextureLength(t)
      THEN TextureEntry(t, index.n).f
      ELSE Undefined

\* _getValue(texturePixels, numValues, m)
GetValue(t, numValues, m) ==
    LET x == JsMul(Int2Js(numValues), m)
        lowIndex == Clamp(MathFloor(x), Zero, Int2Js(numValues))
        highIndex == Clamp(MathCeil(x), Zero, Int2Js(numValues))
        fract == JsSub(x, MathFloor(x))
    IN  NumVal(MathRound(JsAdd(JsMul(fract, PixelAt(t, highIndex)),
                               JsMul(JsSub(One, fract), PixelAt(t, lowIndex)))))

\* the index _getColorValue reads: Math.round(m * MAX_BYTE_VALUE)
ColorIndex(m) == MathRound(JsMul(m, Int2Js(MAX_BYTE_VALUE)))

\* _getColorValue(texturePixels, m): channels read off the table are NaN
GetColorValue(t, m) ==
    LET index == ColorIndex(m)
    IN  IF IsFin(index) /\ index.n >= 0 /\ index.n < TextureLength(t)
          THEN TextureEntry(t, index.n)
          ELSE NaNColor

\* (x - this.minKey) / (this.maxKey - this.minKey)
NormalizedKey(r, x) == JsDiv(JsSub(x, r.minKey), JsSub(r.maxKey, r.minKey))

\* the value eval and _getRampValueByIndex read for the input value x
RampValue(r, t, x) ==
    IF r.type = "number"
      THEN GetValue(t, TextureLength(t) - 1, NormalizedKey(r, x))
      ELSE GetColorValue(t, NormalizedKey(r, x))

\* ------------------------------------------------------------------------
\* Ramp: operations
\* ------------------------------------------------------------------------
NoRampOut ==
    [op |-> "none", threw |-> FALSE, arg |-> 0, x |-> Undefined, m |-> Undefined,
     val |-> NoVal, legend |-> <<>>, used |-> 0, created |-> FALSE, opts |-> "",
     keyMin |-> Undefined, keyWidth |-> Undefined, unitAfter |-> 0, units |-> <<>>,
     text |-> NoText]

NoHist == [computes |-> 0, builtFor |-> Undefined]

\* a history counter stops at MaxComputes
Bump(count, by) == Min2(count + by, MaxComputes)

\* the history after `builds` table builds for the category count nc
Built(h, r, nc, builds) ==
    IF builds = 0 THEN h
    ELSE [h EXCEPT !.computes = Bump(@, builds), !.builtFor = NumCategories(r, nc)]

\* new Ramp(input, palette): the constructor refuses an image palette over
\* an input known to be numeric
RampInit ==
    \E kind \in InputKinds, palette \in Palettes, nc \in 1 .. MaxCats :
        /\ palette.type = "image" => (kind # "Linear" /\ ~palette.animated)
        /\ kind = "Linear" => nc = 1
        /\ ramp = NewRamp(kind, palette)
        /\ numCats = nc
        /\ tex = NoTexture
        /\ palPhase = 0
        /\ rampOut = IF CalcPaletteValuesThrows(palette)
                       THEN [NoRampOut EXCEPT !.op = "new", !.threw = TRUE]
                       ELSE NoRampOut
        /\ hist = NoHist

\* the input's category count grows: decoding a tile adds the categories it
\* had not seen to the metadata
InputCategoriesChange(nc) ==
    /\ ramp.metadata # 0
    /\ InputType(ramp) = "category"
    /\ nc > numCats
    /\ numCats' = nc
    /\ rampOut' = [NoRampOut EXCEPT !.op = "env"]
    /\ UNCHANGED <<ramp, tex, palPhase, hist>>

\* time passes for an animated palette
PaletteAnimates ==
    /\ PaletteIsAnimated(ramp.palette)
    /\ palPhase' = 1 - palPhase
    /\ rampOut' = [NoRampOut EXCEPT !.op = "env"]
    /\ UNCHANGED <<ramp, tex, numCats, hist>>

\* BaseExpression._bindMetadata(metadata) refuses a second, different metadata
BaseRefusesRebind(r, id) == r.baseBound # 0 /\ r.baseBound # id

\* the children's own _bindMetadata: a Linear or a classifier needs a numeric
\* property, a Top a categorical one
ChildrenAccept(chain, id) ==
    LET cls == Head1(chain).cls
    IN  /\ cls \in {"Linear", "Classifier"} => MetaPropType(id) = "number"
        /\ cls = "Top" => MetaPropType(id) = "category"

\* the children after BaseExpression._bindMetadata(metadata)
BindChildren(chain, id) ==
    [i \in 1 .. Len(chain) |->
        [chain[i] EXCEPT !.bound = id,
                         !.type = IF chain[i].cls = "Property" THEN MetaPropType(id) ELSE @]]

ShouldWrapAnyNumber(node) == node.type = "number"

\* this.input.isA(Property) && this.input.type === inputTypes.NUMBER
ShouldWrapInLinear(node) == node.cls = "Property" /\ node.type = "number"

\* new Linear(this.input), then its _bindMetadata(metadata)
WrapInLinear(chain, id) ==
    <<[cls |-> "Linear", type |-> "number", bound |-> id, nid |-> Len(chain) + 2]>> \o chain

BindMetadataAssignFirst(r, id) ==
    LET r0 == [r EXCEPT !.metadata = id, !.texCategories = Null, !.GLtexCategories = Null]
    IN  IF BaseRefusesRebind(r, id) \/ ~ChildrenAccept(r.input, id)
          THEN [ramp |-> r0, threw |-> TRUE]
          ELSE LET bound == BindChildren(r.input, id)
                   input == IF ShouldWrapInLinear(Head1(bound))
                              THEN WrapInLinear(bound, id) ELSE bound
                   r1 == [r0 EXCEPT !.baseBound = id, !.input = input]
               IN  [ramp |-> r1,
                    threw |-> r.palette.type = "image" /\ Head1(input).type # "category"]

\* Ramp._bindMetadata(metadata): the node after the call, and whether it threw
BindMetadata(r, id) ==
    IF BaseRefusesRebind(r, id) \/ ~ChildrenAccept(r.input, id)
      THEN [ramp |-> r, threw |-> TRUE]
      ELSE LET bound == BindChildren(r.input, id)
               input == IF ShouldWrapInLinear(Head1(bound))
                          THEN WrapInLinear(bound, id) ELSE bound
               r1 == [r EXCEPT !.baseBound = id, !.input = input]
           IN  IF r.palette.type = "image" /\ Head1(input).type # "category"
                 THEN [ramp |-> r1, threw |-> TRUE]
                 ELSE [ramp |-> [r1 EXCEPT !.metadata = id,
                                           !.texCategories = Null,
                                           !.GLtexCategories = Null],
                       threw |-> FALSE]

RampBindMetadata(id) ==
    LET b == BindMetadata(ramp, id)
    IN  /\ ramp.exists
        /\ ramp' = b.ramp
        /\ rampOut' = [NoRampOut EXCEPT !.op = "bind", !.arg = id, !.threw = b.threw]
        /\ UNCHANGED <<tex, numCats, palPhase, hist>>

\* Linear.eval(feature): the property's value scaled by its range
LinearEval(raw) ==
    JsDiv(Int2Js(raw - MetadataStats.min), Int2Js(MetadataStats.max - MetadataStats.min))

\* the feature values the model draws: a category code of the input, or a
\* number from one below the property's range to one above it
FeatureValues(r, nc) ==
    IF InputType(r) = "category" THEN 0 .. (nc - 1)
    ELSE (MetadataStats.min - 1) .. (MetadataStats.max + 1)

\* this.input.eval(feature)
InputEval(r, v) == IF InputType(r) = "category" THEN Int2Js(v) ELSE LinearEval(v)

\* Ramp.eval(feature)
RampEval(v) ==
    LET c == ComputeTextureIfNeeded(CalcPaletteValues(ramp, palPhase), tex, numCats, palPhase)
        x == InputEval(ramp, v)
        h == Built(hist, ramp, numCats, IF c.built THEN 1 ELSE 0)
    IN  /\ ramp.metadata # 0
        /\ ramp.palette.type # "image"
        /\ ramp' = c.ramp
        /\ tex' = c.tex
        /\ hist' = h
        /\ rampOut' = [NoRampOut EXCEPT !.op = "eval", !.x = x,
                                        !.m = NormalizedKey(c.ramp, x),
                                        !.val = RampValue(c.ramp, c.tex, x),
                                        !.used = h.computes]
        /\ UNCHANGED <<numCats, palPhase>>

\* _getRampValueByIndex(index), once the table is there
RampValueByIndex(r, t, index) ==
    IF r.palette.type = "image"
      THEN (IF index < r.palette.size THEN UrlOf(index) ELSE NullVal)
      ELSE LET color == RampValue(r, t, Int2Js(index))
           IN  IF color.t = "nancolor" THEN NullVal ELSE color

\* value ? [ value ] : null
LegendValues(value) ==
    IF value.t \in {"color", "url"} \/ (value.t = "number" /\ Truthy(value.f))
      THEN value
      ELSE NullVal

\* _getCategoryName(name)
GetCategoryName(name) == IF name = "" THEN DEFAULT_OTHERS_NAME ELSE name

\* what getLegend may be given: no option, othersLabel, or defaultOthers
LegendOptions ==
    {[othersLabel |-> "", defaultOthers |-> ""],
     [othersLabel |-> "Rest", defaultOthers |-> ""],
     [othersLabel |-> "", defaultOthers |-> "Rest"]}

\* this.input.getCategories(): the input's categories, in order
GetCategories(nc) == [i \in 1 .. nc |-> [name |-> CategoryNames[i]]]

\* this.input.list.elems of a Buckets: its breakpoints, one fewer than buckets
ListElems(nc) == [i \in 1 .. (nc - 1) |-> [expr |-> CategoryNames[i]]]

\* this.input.numBuckets of a Top: its categories but the last
NumBuckets(nc) == nc - 1

\* _getLegendItemValue(category, index)
GetLegendItemValue(r, t, category, index) ==
    [name |-> GetCategoryName(category.expr), index |-> index, x |-> Undefined,
     val |-> LegendValues(RampValueByIndex(r, t, index))]

GetLegendCategoryValueOthersLabel(r, t, nc, category, index, options) ==
    IF InputIsA(r, "Top") /\ NumBuckets(nc) = index
      THEN [name |-> IF options.othersLabel # "" THEN options.othersLabel
                     ELSE DEFAULT_OTHERS_NAME,
            index |-> index, x |-> Undefined,
            val |-> LegendValues(RampValueByIndex(r, t, index))]
      ELSE [name |-> GetCategoryName(category.name), index |-> index, x |-> Undefined,
            val |-> LegendValues(RampValueByIndex(r, t, index))]

\* _getLegendCategoryValue(category, index, options)
GetLegendCategoryValue(r, t, nc, category, index, options) ==
    IF InputIsA(r, "Top") /\ NumBuckets(nc) = index
      THEN [name |-> IF options.defaultOthers # "" THEN options.defaultOthers
                     ELSE DEFAULT_OTHERS_NAME,
            index |-> index, x |-> Undefined,
            val |-> LegendValues(RampValueByIndex(r, t, index))]
      ELSE [name |-> GetCategoryName(category.name), index |-> index, x |-> Undefined,
            val |-> LegendValues(RampValueByIndex(r, t, index))]

KeepAll(rows) == rows

\* .filter(legend => legend.values !== null)
KeepNonNull(rows) == SelectSeq(rows, LAMBDA row : row.val # NullVal)

\* _getLegendList()
GetLegendList(r, t, nc) ==
    KeepNonNull([i \in 1 .. Len(ListElems(nc)) |->
                    GetLegendItemValue(r, t, ListElems(nc)[i], i - 1)])

\* _getLeyendCategories(options)
GetLeyendCategories(r, t, nc, options) ==
    KeepNonNull([i \in 1 .. Len(GetCategories(nc)) |->
                    GetLegendCategoryValue(r, t, nc, GetCategories(nc)[i], i - 1, options)])

RECURSIVE SortAscending(_)
\* Array.prototype.sort((a, b) => a - b)
SortAscending(s) ==
    IF Len(s) <= 1 THEN s
    ELSE LET least == CHOOSE i \in 1 .. Len(s) : \A j \in 1 .. Len(s) : s[i] <= s[j]
         IN  <<s[least]>> \o
             SortAscending([j \in 1 .. (Len(s) - 1) |-> IF j < least THEN s[j] ELSE s[j + 1]])

\* _getLegendLinear()
GetLegendLinear(r, t) ==
    LET sorted == SortAscending(MetadataStats.sample)
    IN  [i \in 1 .. Len(sorted) |->
            [name |-> PropName, index |-> i - 1, x |-> Int2Js(sorted[i]),
             val |-> RampValue(r, t, LinearEval(sorted[i]))]]

\* the branch getLegend takes
LegendKind(r) ==
    IF InputIsA(r, "Linear") THEN "linear"
    ELSE IF InputType(r) = "category"
      THEN (IF InputIsA(r, "Buckets") THEN "list" ELSE "categories")
    ELSE "undefined"

\* how many times getLegend reads the ramp's value
LegendReads(r, nc) ==
    IF LegendKind(r) = "linear" THEN Len(MetadataStats.sample)
    ELSE IF LegendKind(r) = "list" THEN Len(ListElems(nc))
    ELSE IF LegendKind(r) = "categories" THEN Len(GetCategories(nc))
    ELSE 0

\* Ramp.getLegend(options).  Every read of the ramp's value re-evaluates the
\* palette and calls _computeTextureIfNeeded; the reads after the first find
\* the node and the table as the first left them, and build again exactly
\* when the palette is animated.
RampGetLegend(options) ==
    LET reads == IF ramp.palette.type = "image" THEN 0 ELSE LegendReads(ramp, numCats)
        c == IF reads = 0
               THEN [ramp |-> ramp, tex |-> tex, built |-> FALSE]
               ELSE ComputeTextureIfNeeded(CalcPaletteValues(ramp, palPhase), tex,
                                           numCats, palPhase)
        builds == IF ~c.built THEN 0
                  ELSE IF PaletteIsAnimated(ramp.palette) THEN reads ELSE 1
        h == Built(hist, ramp, numCats, builds)
        kind == LegendKind(ramp)
    IN  /\ ramp.metadata # 0
        /\ ramp' = c.ramp
        /\ tex' = c.tex
        /\ hist' = h
        /\ rampOut' =
              [NoRampOut EXCEPT
                 !.op = "getLegend",
                 !.opts = IF options.defaultOthers # "" THEN "defaultOthers"
                          ELSE IF options.othersLabel # "" THEN "othersLabel" ELSE "",
                 !.val = IF kind = "undefined" THEN NoVal ELSE NullVal,
                 !.legend = IF kind = "linear" THEN GetLegendLinear(c.ramp, c.tex)
                            ELSE IF kind = "list" THEN GetLegendList(c.ramp, c.tex, numCats)
                            ELSE IF kind = "categories"
                              THEN GetLeyendCategories(c.ramp, c.tex, numCats, options)
                            ELSE <<>>,
                 !.used = IF reads = 0 THEN 0 ELSE h.computes]
        /\ UNCHANGED <<numCats, palPhase>>

GLTextureAlwaysNeeded(r, nc) == TRUE

\* this._GLtexCategories !== this.input.numCategories || isAnimatedPalette
GLTextureNeeded(r, nc) ==
    r.GLtexCategories # NumCategories(r, nc) \/ PaletteIsAnimated(r.palette)

TexUnitBoundAtEntry(atEntry, atUse) == atEntry

\* the texture unit a ramp binds: drawMetadata.freeTexUnit as it is when the
\* ramp uses it, after its input's _preDraw, not as it was at entry
TexUnitBound(atEntry, atUse) == atUse

RECURSIVE RampPreDrawUnits(_, _)
\* the texture units _preDraw binds for a ramp with `nested` ramps inside its
\* input, each one inside the input of the next: this.input._preDraw runs
\* first, then the ramp binds its unit and increments freeTexUnit
RampPreDrawUnits(nested, unit) ==
    LET input == IF nested = 0 THEN [units |-> <<>>, free |-> unit]
                 ELSE RampPreDrawUnits(nested - 1, unit)
    IN  [units |-> Append(input.units, TexUnitBound(unit, input.free)),
         free |-> input.free + 1]

\* this.input._preDraw(program, drawMetadata, gl): freeTexUnit afterwards
InputPreDraw(r, unit) ==
    IF r.inner = 0 THEN [units |-> <<>>, free |-> unit]
    ELSE RampPreDrawUnits(r.inner - 1, unit)

\* Ramp._preDraw(program, drawMetadata, gl), drawMetadata.freeTexUnit being unit
RampPreDraw(unit) ==
    LET c == ComputeTextureIfNeeded(ramp, tex, numCats, palPhase)
        create == GLTextureNeeded(c.ramp, numCats)
        h == Built(hist, ramp, numCats, IF c.built THEN 1 ELSE 0)
    IN  /\ ramp.metadata # 0
        /\ IF ramp.palette.type = "image"
             THEN /\ rampOut' = [NoRampOut EXCEPT
                                    !.op = "preDraw",
                                    !.units = InputPreDraw(ramp, unit).units,
                                    !.unitAfter = InputPreDraw(ramp, unit).free]
                  /\ UNCHANGED <<ramp, tex, hist>>
             ELSE /\ ramp' = IF create
                               THEN [c.ramp EXCEPT
                                        !.GLtexCategories = NumCategories(c.ramp, numCats),
                                        !.texture = c.tex]
                               ELSE c.ramp
                  /\ tex' = c.tex
                  /\ hist' = h
                  /\ rampOut' = [NoRampOut EXCEPT
                                    !.op = "preDraw",
                                    !.created = create,
                                    !.keyMin = c.ramp.minKey,
                                    !.keyWidth = JsSub(c.ramp.maxKey, c.ramp.minKey),
                                    !.units = RampPreDrawUnits(ramp.inner, unit).units,
                                    !.unitAfter = RampPreDrawUnits(ramp.inner, unit).free,
                                    !.used = h.computes]
        /\ UNCHANGED <<numCats, palPhase>>

\* Ramp._setUID(idGenerator): the node gets its _uid
RampSetUID(uid) ==
    /\ ramp.exists
    /\ ramp.uid = 0
    /\ ramp' = [ramp EXCEPT !.uid = uid]
    /\ rampOut' = [NoRampOut EXCEPT !.op = "setUID"]
    /\ UNCHANGED <<tex, numCats, palPhase, hist>>

\* `texRamp${this._uid}`, `keyMin${this._uid}`, `keyWidth${this._uid}`
TexRampName(uid) == <<"t", "e", "x", "R", "a", "m", "p">> \o Digits(uid)
KeyMinName(uid) == <<"k", "e", "y", "M", "i", "n">> \o Digits(uid)
KeyWidthName(uid) == <<"k", "e", "y", "W", "i", "d", "t", "h">> \o Digits(uid)
RampUniformNames(uid) == <<TexRampName(uid), KeyMinName(uid), KeyWidthName(uid)>>

\* this.input._applyToShaderSource(getGLSLforProperty): the input's GLSL,
\* which names the input's nodes
InputShaderSource(chain) ==
    [guard |-> 0, uniforms |-> <<>>,
     inline |-> [i \in 1 .. Len(chain) |-> <<chain[i].cls, chain[i].nid>>]]

\* this.palette._applyToShaderSource(getGLSLforProperty) of an image list
ImagesShaderSource(palette) ==
    [guard |-> 0, uniforms |-> <<>>, inline |-> <<"images", palette.size>>]

\* what Ramp._applyToShaderSource returns
RampShaderSource(r) ==
    LET input == InputShaderSource(r.input)
    IN  IF r.palette.type = "image"
          THEN [guard |-> 0,
                uniforms |-> input.uniforms \o ImagesShaderSource(r.palette).uniforms,
                inline |-> <<ImagesShaderSource(r.palette).inline, "imageUV", input.inline>>]
          ELSE [guard |-> PrefaceCode(r.uid, input.uniforms \o RampUniformNames(r.uid)).guard,
                uniforms |-> PrefaceCode(r.uid, input.uniforms \o RampUniformNames(r.uid)).uniforms,
                inline |-> <<"texture2D", TexRampName(r.uid), input.inline, KeyMinName(r.uid),
                             KeyWidthName(r.uid),
                             IF r.palette.type = "number-array" THEN ".a" ELSE ".rgba">>]

RampApplyToShaderSource ==
    /\ ramp.metadata # 0
    /\ ramp.uid # 0
    /\ rampOut' = [NoRampOut EXCEPT !.op = "applyToShaderSource",
                                    !.text = RampShaderSource(ramp)]
    /\ UNCHANGED <<ramp, tex, numCats, palPhase, hist>>

\* ------------------------------------------------------------------------
\* MVT: decoding a layer of point features
\* ------------------------------------------------------------------------
MVT_EXTENT == 4096
RTT_WIDTH == 1024

\* A Float32Array: its length and the entries written so far; an entry not
\* written is 0, and a write beyond the length is dropped.
NewFloat32Array(length) == [length |-> length, vals |-> <<>>]
NoArray == [length |-> -1, vals |-> <<>>]
F32At(a, i) == IF i \in DOMAIN a.vals THEN a.vals[i] ELSE Zero
F32Set(a, i, v) ==
    IF i >= 0 /\ i < a.length
      THEN [a EXCEPT !.vals = [j \in (DOMAIN a.vals) \cup {i} |->
                                  IF j = i THEN v ELSE a.vals[j]]]
      ELSE a

\* the values of f.properties[propertyName]: a number, a string, nothing, or
\* a value of another type
PropertyValues ==
    {[t |-> "number", num |-> 7, str |-> ""],
     [t |-> "string", num |-> 0, str |-> "a"],
     [t |-> "null", num |-> 0, str |-> ""],
     [t |-> "boolean", num |-> 0, str |-> ""]}

\* geom[0][0] of a point feature, in tile units: inside the tile, on each of
\* its edges, and just outside
PointGeometries ==
    {[x |-> 0, y |-> MVT_EXTENT],
     [x |-> MVT_EXTENT - 1, y |-> 1],
     [x |-> MVT_EXTENT, y |-> MVT_EXTENT \div 2],
     [x |-> MVT_EXTENT \div 2, y |-> 0],
     [x |-> -1, y |-> MVT_EXTENT \div 2],
     [x |-> MVT_EXTENT \div 2, y |-> MVT_EXTENT + 1]}

MvtFeatures == [geom : PointGeometries, prop : PropertyValues]
MvtLayers == UNION {[1 .. n -> MvtFeatures] : n \in 0 .. MaxFeatures}

\* metadata.geomType when the layer arrives: not known yet, or point
GeomTypes == {"undefined", "point"}

\* this._metadata.categorizeString(propertyValue): the category's number
CategorizeString(str) ==
    Int2Js((CHOOSE i \in 1 .. Len(CategoryNames) : CategoryNames[i] = str) - 1)

\* MVT.decodeProperty(propertyName, propertyValue)
DecodeProperty(propertyValue) ==
    IF propertyValue.t = "string"
      THEN [threw |-> FALSE, val |-> CategorizeString(propertyValue.str)]
    ELSE IF propertyValue.t = "number"
      THEN [threw |-> FALSE, val |-> Int2Js(propertyValue.num)]
    ELSE IF propertyValue.t = "null"
      THEN [threw |-> FALSE, val |-> NaN]
    ELSE [threw |-> TRUE, val |-> NaN]

\* 2 * (geom[0][0].x) / mvt_extent - 1.
PointX(geom, mvt_extent) ==
    LET twice == JsMul(Int2Js(2), Int2Js(geom.x))
        scaled == JsDiv(twice, Int2Js(mvt_extent))
    IN  JsSub(scaled, One)

\* 2 * (1. - (geom[0][0].y) / mvt_extent) - 1.
PointY(geom, mvt_extent) ==
    LET scaled == JsDiv(Int2Js(geom.y), Int2Js(mvt_extent))
        flipped == JsSub(One, scaled)
        twice == JsMul(Int2Js(2), flipped)
    IN  JsSub(twice, One)

\* x < -1 || x >= 1 || y < -1 || y >= 1
OutsideTile(x, y) ==
    \/ JsLt(x, JsNeg(One))
    \/ ~JsLt(x, One)
    \/ JsLt(y, JsNeg(One))
    \/ ~JsLt(y, One)

PropertySlotByFeature(i, numFeatures) == i

\* the index decodedProperties[propertyName] is written at for feature i
PropertySlot(i, numFeatures) == numFeatures

RECURSIVE DecodeFeatures(_, _, _, _)
\* the loop of _decodeMVTLayer from feature i (counted from 0) on
DecodeFeatures(layer, i, mvt_extent, st) ==
    IF i >= Len(layer) \/ st.threw THEN st
    ELSE
      LET f == layer[i + 1]
          points0 == IF st.geomType = "undefined"
                       THEN NewFloat32Array(Len(layer) * 2) ELSE st.points
          x == PointX(f.geom, mvt_extent)
          y == PointY(f.geom, mvt_extent)
          points1 == F32Set(F32Set(points0, 2 * st.numFeatures, x),
                            2 * st.numFeatures + 1, y)
          p == DecodeProperty(f.prop)
      IN  IF OutsideTile(x, y)
            THEN DecodeFeatures(layer, i + 1, mvt_extent,
                                [st EXCEPT !.geomType = "point", !.points = points0])
          ELSE IF p.threw
            THEN [st EXCEPT !.geomType = "point", !.points = points1, !.threw = TRUE]
          ELSE DecodeFeatures(layer, i + 1, mvt_extent,
                  [st EXCEPT !.geomType = "point",
                             !.points = points1,
                             !.props = F32Set(@, PropertySlot(i, st.numFeatures), p.val),
                             !.numFeatures = @ + 1])

\* _decodeMVTLayer(mvtLayer, metadata, mvt_extent) for a layer of points
DecodeMVTLayer(layer, geomType, mvt_extent) ==
    DecodeFeatures(layer, 0, mvt_extent,
        [called |-> TRUE,
         layer |-> layer,
         geomType |-> geomType,
         points |-> IF geomType = "point" THEN NewFloat32Array(Len(layer) * 2) ELSE NoArray,
         props |-> NewFloat32Array(Len(layer) + RTT_WIDTH),
         numFeatures |-> 0,
         threw |-> FALSE])

NoMvt ==
    [called |-> FALSE, layer |-> <<>>, geomType |-> "undefined", points |-> NoArray,
     props |-> NoArray, numFeatures |-> 0, threw |-> FALSE]

MvtIdle == mvt = NoMvt

\* the layer of the tile the source was sent arrives and is decoded
MvtDecodeLayer ==
    /\ ~mvt.called
    /\ \E layer \in MvtLayers, geomType \in GeomTypes :
          mvt' = DecodeMVTLayer(layer, geomType, MVT_EXTENT)
    /\ UNCHANGED <<animVars, rampVars>>

\* ------------------------------------------------------------------------
\* Specifications
\* ------------------------------------------------------------------------
\* the Ramp specification leaves the Animate node out, and the other way round
AnimIdle == now = 0 /\ anim = NoAnim /\ animOut = NoOut

RampIdle ==
    /\ ramp = NewRamp("Linear", [type |-> "color-array", size |-> 1, animated |-> FALSE,
                                constant |-> TRUE])
    /\ tex = NoTexture
    /\ numCats = 1
    /\ palPhase = 0
    /\ rampOut = NoRampOut
    /\ hist = NoHist

Init == RampInit /\ AnimIdle /\ MvtIdle

Next ==
    \/ \E id \in MetadataIds : RampBindMetadata(id) /\ UNCHANGED <<animVars, mvt>>
    \/ \E v \in FeatureValues(ramp, numCats) : RampEval(v) /\ UNCHANGED <<animVars, mvt>>
    \/ \E options \in LegendOptions : RampGetLegend(options) /\ UNCHANGED <<animVars, mvt>>
    \/ \E unit \in 0 .. MaxTexUnit : RampPreDraw(unit) /\ UNCHANGED <<animVars, mvt>>
    \/ \E nc \in 1 .. MaxCats : InputCategoriesChange(nc) /\ UNCHANGED <<animVars, mvt>>
    \/ PaletteAnimates /\ UNCHANGED <<animVars, mvt>>

Spec == Init /\ [][Next]_vars

\* the same node while its input's category count stays as it is and the
\* palette's values do not move
NextStable ==
    \/ \E id \in MetadataIds : RampBindMetadata(id) /\ UNCHANGED <<animVars, mvt>>
    \/ \E v \in FeatureValues(ramp, numCats) : RampEval(v) /\ UNCHANGED <<animVars, mvt>>
    \/ \E options \in LegendOptions : RampGetLegend(options) /\ UNCHANGED <<animVars, mvt>>
    \/ \E unit \in 0 .. MaxTexUnit : RampPreDraw(unit) /\ UNCHANGED <<animVars, mvt>>

SpecStable == Init /\ [][NextStable]_vars

InitAnimate == AnimInit /\ RampIdle /\ MvtIdle

AnimNext ==
    \/ Tick
    \/ \E duration \in Durations : AnimateConstructor(duration)
    \/ \E uid \in Uids : AnimSetUID(uid)
    \/ AnimEval
    \/ AnimIsAnimated
    \/ AnimApplyToShaderSource
    \/ AnimPostShaderCompile
    \/ AnimPreDraw

SpecAnimate == InitAnimate /\ [][AnimNext]_vars

\* shader generation: an Animate node and a Ramp node of one viz, both made,
\* then given their _uid, bound and asked for their GLSL
InitShader ==
    /\ RampInit
    /\ MvtIdle
    /\ now = 0
    /\ \E duration \in 0 .. MaxDuration :
          anim = [NoAnim EXCEPT !.exists = TRUE, !.bTime = duration]
    /\ animOut = NoOut

NextShader ==
    \/ \E uid \in Uids : AnimSetUID(uid)
    \/ AnimApplyToShaderSource
    \/ \E uid \in Uids : RampSetUID(uid) /\ UNCHANGED <<animVars, mvt>>
    \/ \E id \in MetadataIds : RampBindMetadata(id) /\ UNCHANGED <<animVars, mvt>>
    \/ RampApplyToShaderSource /\ UNCHANGED <<animVars, mvt>>

SpecShader == InitShader /\ [][NextShader]_vars

\* drawing: a ramp whose input may hold other ramps
InitDraw ==
    /\ AnimIdle
    /\ MvtIdle
    /\ \E kind \in InputKinds, palette \in Palettes, nc \in 1 .. MaxCats,
          inner \in 0 .. MaxNested :
        /\ palette.type = "image" => (kind # "Linear" /\ ~palette.animated)
        /\ kind = "Linear" => nc = 1
        /\ kind = "Property" => inner = 0
        /\ ~CalcPaletteValuesThrows(palette)
        /\ ramp = [NewRamp(kind, palette) EXCEPT !.inner = inner]
        /\ numCats = nc
        /\ tex = NoTexture
        /\ palPhase = 0
        /\ rampOut = NoRampOut
        /\ hist = NoHist

NextDraw ==
    \/ \E id \in MetadataIds : RampBindMetadata(id) /\ UNCHANGED <<animVars, mvt>>
    \/ \E unit \in 0 .. MaxTexUnit : RampPreDraw(unit) /\ UNCHANGED <<animVars, mvt>>

SpecDraw == InitDraw /\ [][NextDraw]_vars

\* the MVT source decoding the layers of the tiles it receives
InitMVT == AnimIdle /\ RampIdle /\ MvtIdle

NextMVT == MvtDecodeLayer

SpecMVT == InitMVT /\ [][NextMVT]_vars

\* ------------------------------------------------------------------------
\* Claims about Animate
\* ------------------------------------------------------------------------
AnimDuration == anim.bTime - anim.aTime
AnimElapsed == animOut.at - anim.aTime
EvalReturned == anim.exists /\ animOut.op = "eval"

\* C1: for a node created at t0 with duration d > 0, eval() at time t >= t0
\* returns min((t - t0) / d, 1), and the returned value lies in [0, 1].
C1_EvalIsClampedProgress ==
    (EvalReturned /\ AnimDuration > 0) =>
        /\ IsFin(animOut.num)
        /\ IF AnimElapsed <= AnimDuration
             THEN animOut.num.n * AnimDuration = AnimElapsed * animOut.num.d
             ELSE animOut.num = One
        /\ animOut.num.n >= 0
        /\ animOut.num.n <= animOut.num.d

C1_Witness ==
    /\ EvalReturned
    /\ AnimDuration = 2
    /\ AnimElapsed = 1
    /\ animOut.num = Fin(1, 2)

\* C2: for every accepted duration d >= 0, including 0, eval() at any time
\* t >= t0 + d returns exactly 1.
C2_EvalIsOneAfterDuration ==
    (EvalReturned /\ animOut.at >= anim.bTime) => animOut.num = One

\* ------------------------------------------------------------------------
\* Claims about Ramp
\* ------------------------------------------------------------------------
ReadsTable == rampOut.op \in {"eval", "getLegend", "preDraw"} /\ rampOut.used # 0
Categorical == InputType(ramp) = "category"

C3_OneTable ==
    ~PaletteIsAnimated(ramp.palette) =>
        /\ hist.computes <= 1
        /\ (hist.computes = 0) <=> (tex = NoTexture)
        /\ (rampOut.op = "none" \/ ramp.metadata = 0) => tex = NoTexture
        /\ rampOut.op = "eval" => rampOut.used = 1
        /\ (rampOut.op = "preDraw" /\ ramp.palette.type # "image") => rampOut.used = 1
        /\ (rampOut.op = "getLegend" /\ rampOut.legend # <<>> /\ ramp.palette.type # "image")
              => rampOut.used = 1

C3_TableKept ==
    /\ (~PaletteIsAnimated(ramp.palette) /\ tex # NoTexture) => tex' = tex
    /\ rampOut'.op = "bind" => (tex' = tex /\ hist' = hist)

\* C3: while the palette is not animated and the input's category count stays
\* as it is, the lookup table is built exactly once, by the first eval,
\* getLegend or _preDraw that reads it (not by the constructor or the
\* binding), and every later call reads that same table.
C3_TableBuiltOnceAndReused == []C3_OneTable /\ [][C3_TableKept]_vars

C3_Witness ==
    /\ ~PaletteIsAnimated(ramp.palette)
    /\ rampOut.op = "getLegend"
    /\ rampOut.legend # <<>>
    /\ rampOut.used = 1
    /\ hist.computes = 1
    /\ tex # NoTexture
    /\ ramp.texture = tex

\* C4: when the input's category count differs from the one the cached table
\* was built for, the next eval, getLegend or _preDraw rebuilds the table and
\* recomputes maxKey before reading it, animated palette or not.
C4_TableRebuiltForNewCount ==
    (ReadsTable /\ Categorical) =>
        /\ hist.builtFor = Int2Js(numCats)
        /\ ramp.maxKey = Int2Js(numCats - 1)

RebindsToOther ==
    /\ rampOut'.op = "bind"
    /\ ramp.baseBound # 0
    /\ rampOut'.arg # ramp.baseBound

OwnNodes == SelectSeq(ramp.input, LAMBDA node : node.nid <= 2)
AddedNodes == SelectSeq(ramp.input, LAMBDA node : node.nid > 2)

\* C6: after _bindMetadata, an input that was a bare Property of type number
\* is a Linear around that property, bound to the same metadata; any other
\* input is the node it was; and no input is ever wrapped twice.
C6_NumericPropertyWrappedOnce ==
    /\ ramp.baseBound = 0 => AddedNodes = <<>>
    /\ ramp.baseBound # 0 =>
          IF Len(OwnNodes) = 1 /\ MetaPropType(ramp.baseBound) = "number"
            THEN /\ Len(AddedNodes) = 1
                 /\ ramp.input = AddedNodes \o OwnNodes
                 /\ AddedNodes[1].cls = "Linear"
                 /\ AddedNodes[1].bound = ramp.baseBound
                 /\ OwnNodes[1] = [PropertyNode EXCEPT !.type = "number",
                                                       !.bound = ramp.baseBound]
            ELSE /\ AddedNodes = <<>>
                 /\ \A i \in 1 .. Len(ramp.input) : ramp.input[i].bound = ramp.baseBound

C6_Witness ==
    /\ rampOut.op = "bind"
    /\ ~rampOut.threw
    /\ tex # NoTexture
    /\ Len(ramp.input) = 2
    /\ ramp.input[1].cls = "Linear"
    /\ ramp.input[1].nid > 2
    /\ ramp.input[2].cls = "Property"

\* the index a texture lookup with clamp-to-edge reads for the position m
EdgeClampedIndex(m) ==
    IF JsLt(m, Zero) THEN Zero
    ELSE IF JsGt(m, One) THEN Int2Js(MAX_BYTE_VALUE)
    ELSE ColorIndex(m)

\* C7: for a colour ramp, eval reads the table at round(m * 255), an index
\* within 0..255, and returns the colour the shader's lookup yields: the edge
\* entry when m lies outside [0, 1].
C7_EvalReadsOnTable ==
    (rampOut.op = "eval" /\ ramp.type = "color") =>
        /\ IsFin(ColorIndex(rampOut.m))
        /\ ColorIndex(rampOut.m).n \in 0 .. MAX_BYTE_VALUE
        /\ rampOut.val = TextureEntry(tex, EdgeClampedIndex(rampOut.m).n)

\* C8: for a numeric ramp with palette p0 .. pK-1, eval at the normalised
\* position 0 returns exactly p0 and at position 1 exactly pK-1, whatever the
\* palette's values.
C8_EndpointsExact ==
    (rampOut.op = "eval" /\ ramp.type = "number") =>
        LET floats == PaletteFloats(ramp.palette, ramp.palEval)
        IN  /\ rampOut.m = Zero => rampOut.val = NumVal(floats[1])
            /\ rampOut.m = One => rampOut.val = NumVal(floats[Len(floats)])

\* the names of the categories getLegend walks: the breakpoints of a Buckets,
\* the categories of any other categorical input
LegendCategoryNames ==
    IF LegendKind(ramp) = "list"
      THEN [i \in 1 .. Len(ListElems(numCats)) |-> ListElems(numCats)[i].expr]
      ELSE [i \in 1 .. Len(GetCategories(numCats)) |-> GetCategories(numCats)[i].name]

IsOthersSlot(i) == InputIsA(ramp, "Top") /\ NumBuckets(numCats) = i - 1

\* C9: for a categorical ramp with no more categories than palette entries,
\* getLegend returns one entry per input category, in the categories' order:
\* entry i is named after category i and carries the ramp's value for index i.
C9_LegendOnePerCategory ==
    (rampOut.op = "getLegend" /\ Categorical /\ numCats <= ramp.palette.size) =>
        /\ Len(rampOut.legend) = Len(LegendCategoryNames)
        /\ \A i \in 1 .. Len(rampOut.legend) :
              /\ rampOut.legend[i].index = i - 1
              /\ IsOthersSlot(i) \/ rampOut.legend[i].name = LegendCategoryNames[i]
              /\ rampOut.legend[i].val # NullVal

OthersEntries == {i \in 1 .. Len(rampOut.legend) : rampOut.legend[i].name = DEFAULT_OTHERS_NAME}

\* C10: for a categorical ramp with more categories than palette entries, the
\* result of getLegend holds exactly one entry named "Others", the last one.
C10_OneOthersEntryLast ==
    (rampOut.op = "getLegend" /\ Categorical /\ numCats > ramp.palette.size
        /\ rampOut.opts = "") =>
        OthersEntries = {Len(rampOut.legend)} /\ rampOut.legend # <<>>

\* the ramp's value for the category at `index` is not finite: a colour with
\* NaN channels (null), a missing image (null) or the number NaN
NotFinite(index) ==
    LET v == RampValueByIndex(ramp, tex, index)
    IN  v = NullVal \/ (v.t = "number" /\ ~IsFin(v.f))

LegendOfCategories == rampOut.op = "getLegend" /\ Categorical

TopOthersEntries ==
    {j \in 1 .. Len(rampOut.legend) : rampOut.legend[j].index = NumBuckets(numCats)}

LegendOfTop == rampOut.op = "getLegend" /\ InputIsA(ramp, "Top")

\* C12 (as stated): the "others" entry of a Top input, the one whose index is
\* numBuckets, is named "Others" without an override and is named by the
\* othersLabel option of getLegend when that is given.
C12_OthersLabelOverrides ==
    LegendOfTop =>
        \A j \in TopOthersEntries :
            rampOut.legend[j].name =
                IF rampOut.opts = "othersLabel" THEN "Rest" ELSE DEFAULT_OTHERS_NAME

\* C12 (amended): the "others" entry of a Top input, the one whose index is
\* numBuckets, is named "Others" unless getLegend is given the defaultOthers
\* option, whose value then names it; an othersLabel option is not read.
C12_DefaultOthersOverrides ==
    LegendOfTop =>
        \A j \in TopOthersEntries :
            rampOut.legend[j].name =
                IF rampOut.opts = "defaultOthers" THEN "Rest" ELSE DEFAULT_OTHERS_NAME

C12_Witness ==
    /\ LegendOfTop
    /\ rampOut.opts = "defaultOthers"
    /\ TopOthersEntries # {}
    /\ \A j \in TopOthersEntries :
          rampOut.legend[j].name = "Rest" /\ rampOut.legend[j].val # NullVal

\* ------------------------------------------------------------------------
\* More claims about Animate
\* ------------------------------------------------------------------------
\* C13: new Animate(duration) with duration < 0 throws and leaves no node;
\* every duration >= 0, 0 included, is accepted and gives a node whose aTime
\* is the time of creation and whose bTime is aTime + duration.
C13_ConstructorValidatesDuration ==
    /\ animOut.op = "throw" => (animOut.dur < 0 /\ ~anim.exists)
    /\ animOut.op = "new" =>
          /\ animOut.dur >= 0
          /\ anim.exists
          /\ anim.aTime = animOut.at
          /\ anim.bTime = anim.aTime + animOut.dur
    /\ anim.exists => anim.bTime >= anim.aTime

C13_Witness ==
    /\ animOut.op = "new"
    /\ animOut.dur = 0
    /\ anim.exists
    /\ anim.aTime = 1
    /\ anim.bTime = 1

SameNodeSameTime ==
    /\ anim.exists
    /\ anim'.exists
    /\ anim'.aTime = anim.aTime
    /\ anim'.bTime = anim.bTime
    /\ animOut'.at = animOut.at

C14_SameValue ==
    /\ (SameNodeSameTime /\ animOut.op = "eval" /\ animOut'.op = "preDraw")
          => animOut'.num = animOut.num
    /\ (SameNodeSameTime /\ animOut.op = "preDraw" /\ animOut'.op = "eval")
          => animOut'.num = animOut.num

\* C14: the scalar _preDraw pushes at time t is the value eval() returns at
\* the same time t, for every t >= t0 and every accepted duration: an eval
\* and a _preDraw of one node at one time, in either order, give one value.
C14_PreDrawPushesEvalValue == [][C14_SameValue]_vars

C14_Witness ==
    /\ animOut.op = "preDraw"
    /\ animOut.at > anim.bTime
    /\ anim.bTime > anim.aTime
    /\ animOut.num = One
    /\ animOut.lastEval = One
    /\ JsGt(anim.mix, One)

\* C15: isAnimated() returns true if and only if the progress (t - t0) / d at
\* the time of the call is <= 1; once the clock has passed t0 + d it returns
\* false.
C15_IsAnimatedIffInProgress ==
    (anim.exists /\ animOut.op = "isAnimated") =>
        /\ animOut.flag <=> JsLe(AnimMix(animOut.at), One)
        /\ animOut.at > anim.bTime => ~animOut.flag

IsConstruction == animOut'.op \in {"new", "throw"} /\ now' = now

C16_Frame ==
    (anim.exists /\ ~IsConstruction) =>
        /\ anim'.exists
        /\ anim'.aTime = anim.aTime
        /\ anim'.bTime = anim.bTime
        /\ animOut'.op = "eval" => ~JsLt(animOut'.num, animOut.lastEval)

\* C16: no operation on an Animate node after its construction changes aTime
\* or bTime, and no eval() returns less than an earlier eval() of the node.
C16_StartAndEndFixed == [][C16_Frame]_vars

C16_Witness ==
    /\ animOut.op = "eval"
    /\ anim.uniformLocation # <<>>
    /\ animOut.at = anim.aTime + 2
    /\ anim.bTime = anim.aTime + 2
    /\ animOut.num = One

\* ------------------------------------------------------------------------
\* More claims about Ramp
\* ------------------------------------------------------------------------
ReadsFeature == ramp.palette.type \in {"color-array", "number-array"} /\ ~ramp.palette.constant

\* C17: a color-array or number-array palette whose evaluation reads the
\* feature makes the Ramp constructor throw: no node is made, nothing is
\* bound, and no lookup table is ever built from that palette.
C17_FeaturePaletteRefused ==
    ReadsFeature =>
        /\ rampOut.op = "new"
        /\ rampOut.threw
        /\ ~ramp.exists
        /\ ramp.metadata = 0
        /\ tex = NoTexture
        /\ hist = NoHist

C17_Witness ==
    /\ ReadsFeature
    /\ rampOut.op = "new"
    /\ rampOut.threw
    /\ ~ramp.exists

NotAnimatedNotImage == ramp.palette.type # "image" /\ ~PaletteIsAnimated(ramp.palette)

C18_NoSecondTexture ==
    (NotAnimatedNotImage /\ rampOut'.op = "preDraw") =>
        /\ ramp.texture = NoTexture => rampOut'.created
        /\ rampOut.op = "preDraw" =>
              /\ ~rampOut'.created
              /\ rampOut'.keyMin = rampOut.keyMin
              /\ rampOut'.keyWidth = rampOut.keyWidth
              /\ ramp'.texture = ramp.texture
        /\ rampOut'.keyMin = ramp'.minKey
        /\ rampOut'.keyWidth = JsSub(ramp'.maxKey, ramp'.minKey)

\* C18: for a bound Ramp with a palette that is neither an image list nor
\* animated, and an unchanged category count, the first _preDraw creates the
\* GL texture, a _preDraw that follows a _preDraw creates none, and every
\* _preDraw pushes the same keyMin and keyWidth = maxKey - minKey.
C18_PreDrawIdempotent == [][C18_NoSecondTexture]_vars

C18_Witness ==
    /\ NotAnimatedNotImage
    /\ rampOut.op = "preDraw"
    /\ ~rampOut.created
    /\ ramp.texture # NoTexture
    /\ ramp.texture = tex
    /\ rampOut.keyWidth = One

\* the uniform names a generated text declares or uses
NamesIn(text) == {text.uniforms[i] : i \in 1 .. Len(text.uniforms)}

C19_NamesOfThisNodeOnly ==
    /\ animOut.op = "applyToShaderSource" =>
          /\ NamesIn(animOut.text) # {}
          /\ \A u \in 1 .. MaxUid :
                u # anim.uid =>
                    /\ AnimUniformName(u) \notin NamesIn(animOut.text)
                    /\ AnimUniformName(u) # animOut.text.inline
                    /\ \A k \in 1 .. 3 : RampUniformNames(u)[k] \notin NamesIn(animOut.text)
    /\ (rampOut.op = "applyToShaderSource" /\ ramp.palette.type # "image") =>
          /\ Cardinality(NamesIn(rampOut.text)) = 3
          /\ \A u \in 1 .. MaxUid :
                u # ramp.uid =>
                    /\ AnimUniformName(u) \notin NamesIn(rampOut.text)
                    /\ \A k \in 1 .. 3 : RampUniformNames(u)[k] \notin NamesIn(rampOut.text)

C19_SameTextNoChange ==
    /\ (animOut'.op = "applyToShaderSource" /\ animOut' # animOut) =>
          /\ anim' = anim
          /\ animOut.op = "applyToShaderSource" => animOut'.text = animOut.text
    /\ (rampOut'.op = "applyToShaderSource" /\ rampOut' # rampOut) =>
          /\ ramp' = ramp
          /\ tex' = tex
          /\ rampOut.op = "applyToShaderSource" => rampOut'.text = rampOut.text

\* C19: _applyToShaderSource called twice on the same bound node, Animate or
\* Ramp, returns the same preface and inline text and changes no field of
\* the node; the uniform names it generates embed the node's _uid, so that a
\* node with another _uid generates none of them.
C19_ShaderSourceIdempotent == []C19_NamesOfThisNodeOnly /\ [][C19_SameTextNoChange]_vars

C19_Witness ==
    /\ animOut.op = "applyToShaderSource"
    /\ anim.uid = 1
    /\ rampOut.op = "applyToShaderSource"
    /\ ramp.uid = MaxUid
    /\ ramp.palette.type = "color-array"
    /\ Len(ramp.input) = 2
    /\ ramp.input[1].nid > 2

\* C20: whenever eval or _getRampValueByIndex computes a normalised position,
\* or _preDraw pushes keyWidth, maxKey - minKey is not zero: minKey is 0 and
\* maxKey is 1 for a numeric input and numCategories - 1 for a categorical
\* one, a categorical input with exactly one category included.
C20_KeyWidthNonZero ==
    ReadsTable =>
        /\ ramp.minKey = Zero
        /\ ramp.maxKey = IF Categorical THEN Int2Js(numCats - 1) ELSE One
        /\ JsSub(ramp.maxKey, ramp.minKey) # Zero
        /\ rampOut.op = "eval" => ~IsNaNum(rampOut.m)
        /\ rampOut.op = "preDraw" => rampOut.keyWidth # Zero

\* the ramp's value for the category at `index` is a finite number
FiniteNumber(index) ==
    LET v == RampValueByIndex(ramp, tex, index)
    IN  v.t = "number" /\ IsFin(v.f)

\* C21: for a numeric ramp over a categorical input, every category whose
\* ramp value is a finite number, 0 included, has an entry with non-null
\* values in the result of getLegend.
C21_FiniteValuesKept ==
    (LegendOfCategories /\ ramp.type = "number") =>
        \A i \in 1 .. Len(LegendCategoryNames) :
            FiniteNumber(i - 1) =>
                \E j \in 1 .. Len(rampOut.legend) :
                    /\ rampOut.legend[j].index = i - 1
                    /\ rampOut.legend[j].val # NullVal

UnitsOf(out) == {out.units[i] : i \in 1 .. Len(out.units)}

C22_OwnUnits ==
    (rampOut.op = "preDraw" /\ ramp.palette.type # "image") =>
        /\ Len(rampOut.units) = ramp.inner + 1
        /\ Cardinality(UnitsOf(rampOut)) = Len(rampOut.units)
        /\ \A i \in 1 .. (Len(rampOut.units) - 1) :
              rampOut.units[i + 1] = rampOut.units[i] + 1
        /\ rampOut.unitAfter = rampOut.units[Len(rampOut.units)] + 1

C22_NextRampNextUnit ==
    (/\ rampOut.op = "preDraw"
     /\ rampOut'.op = "preDraw"
     /\ ramp.palette.type # "image"
     /\ rampOut'.units[1] = rampOut.unitAfter)
        => UnitsOf(rampOut) \cap UnitsOf(rampOut') = {}

\* C22: within one draw each non-image ramp binds its texture to the unit
\* freeTexUnit names when the ramp uses it, after its input's _preDraw, and
\* then adds exactly 1 to freeTexUnit, so that no two ramps of the draw, a
\* ramp nested in another's input included, get the same unit.
C22_DistinctTextureUnits == []C22_OwnUnits /\ [][C22_NextRampNextUnit]_vars

C22_Witness ==
    /\ rampOut.op = "preDraw"
    /\ ramp.palette.type # "image"
    /\ ramp.inner = 2
    /\ rampOut.units = <<1, 2, 3>>
    /\ rampOut.unitAfter = 4

\* ------------------------------------------------------------------------
\* Claims about MVT
\* ------------------------------------------------------------------------
\* a point in tile units falls inside [-1, 1) in x and in y
InsideTile(geom) ==
    /\ geom.x >= 0
    /\ geom.x < MVT_EXTENT
    /\ geom.y > 0
    /\ geom.y <= MVT_EXTENT

\* the features of the decoded layer that fall inside, in the layer's order
KeptFeatures == SelectSeq(mvt.layer, LAMBDA f : InsideTile(f.geom))

Decoded == mvt.called /\ ~mvt.threw

\* C23: decoding a layer of points skips every feature whose point falls
\* outside [-1, 1) in x or y; for every kept index k < numFeatures,
\* points[2k], points[2k + 1] and the property entry [k] come from the same
\* feature, the k-th kept one; numFeatures is the number of kept features
\* and never exceeds the layer's feature count.
C23_KeptFeaturesAligned ==
    Decoded =>
        /\ mvt.numFeatures = Len(KeptFeatures)
        /\ mvt.numFeatures <= Len(mvt.layer)
        /\ \A k \in 0 .. (mvt.numFeatures - 1) :
              LET f == KeptFeatures[k + 1]
              IN  /\ F32At(mvt.points, 2 * k) = Fin(2 * f.geom.x - MVT_EXTENT, MVT_EXTENT)
                  /\ F32At(mvt.points, 2 * k + 1) = Fin(MVT_EXTENT - 2 * f.geom.y, MVT_EXTENT)
                  /\ F32At(mvt.props, k) = DecodeProperty(f.prop).val
        /\ DOMAIN mvt.points.vals = 0 .. (2 * mvt.numFeatures - 1)
        /\ DOMAIN mvt.props.vals = 0 .. (mvt.numFeatures - 1)

C23_Witness ==
    /\ Decoded
    /\ Len(mvt.layer) = 2
    /\ ~InsideTile(mvt.layer[1].geom)
    /\ mvt.layer[1].prop.t = "boolean"
    /\ mvt.numFeatures = 1
    /\ F32At(mvt.points, 0) = JsNeg(One)
    /\ F32At(mvt.points, 1) = JsNeg(One)
    /\ mvt.layer[2].prop.t = "number"
    /\ F32At(mvt.props, 0) = Int2Js(mvt.layer[2].prop.num)

====
